---- MODULE Spec2Model ----
(***************************************************************************)
(* Model of src/ip_optimizer.py (class CloudflareIPOptimizer): the probe   *)
(* with its retry loop (test_ip / _single_test), the two bounded           *)
(* concurrent schedulers (test_ips_with_concurrency, "mode A", and         *)
(* test_ips_with_early_stop, "mode B"), and the source iterator            *)
(* get_country_ips_from_all_sources.                                       *)
(*                                                                         *)
(* The program runs on one asyncio event loop: a coroutine runs without    *)
(* interruption from one await that really suspends to the next.  An       *)
(* action of the model is one such uninterrupted stretch.  The suspension  *)
(* points are the wait for a semaphore slot, the HTTPS request of one      *)
(* probe attempt and the backoff sleep between attempts.  The order in     *)
(* which the event loop resumes the suspended tasks is left open.          *)
(***************************************************************************)
EXTENDS Integers, Sequences, FiniteSets, TLC

(* ------------------------------- bounds ------------------------------- *)
\* longest candidate list handed to a scheduler
MaxIps == 2
\* the concurrency bounds C (max_concurrent) and the target counts T
\* (target_count) tried: up to the longest list, so that C and T below, at
\* and above the number of candidates all occur
Concurrencies == 1..MaxIps
Targets == 1..MaxIps

(* ------------------------- program constants -------------------------- *)
\* for attempt in range(1, 4)
MaxAttempts == 3
\* target_port "443", int(target_port)
TargetPort == 443
\* CloudflareIPOptimizer(target_country="US") as in test_github_actions.py
target_country == "US"

\* self.ip_sources, in priority order
ip_sources ==
  << "official", "cm", "as13335", "as209242", "proxyip", "as24429", "as35916", "as199524" >>

(* ------------------------------ data ---------------------------------- *)
\* Optional[...] : the value None
None == [kind |-> "None"]

\* addresses a candidate may name; "" stands for a string that is no IPv4 address
HostList == << "1.1.1.1", "1.0.0.1" >>
Hosts == {HostList[k] : k \in 1..Len(HostList)}
\* the place of a host in HostList, 0 for ""
HostRank(h) == IF h = "" THEN 0 ELSE CHOOSE k \in 1..Len(HostList) : HostList[k] = h
\* the address a trace response may report besides the dialed one
OtherIp == "198.51.100.9"
Ipv6Ip == "2606:4700::1"
\* a test that finds a colon in no address
HasColon_never(s) == FALSE

\* ':' in response_ip, over the addresses of the model
HasColon(s) == s = Ipv6Ip
Colos == {"LAX", "FRA"}
Latencies == {10, 30}

\* a candidate string "host", "host#comment" (port 0: the string names no port)
Candidate(h, c) == [host |-> h, port |-> 0, comment |-> c]
ValidCandidates == {Candidate(h, c) : h \in Hosts, c \in {""}}
BadCandidate == Candidate("", "")

\* _is_valid_ip: ipaddress.IPv4Address(ip) accepts it
_is_valid_ip(ip) == ip \in Hosts

\* _parse_ip_format(ip_string, default_port): host and port of a candidate, or None
_parse_ip_format(cand, default_port) ==
  IF cand.host = "" \/ ~_is_valid_ip(cand.host)
  THEN None
  ELSE [kind |-> "parsed", host |-> cand.host,
        port |-> IF cand.port = 0 THEN default_port ELSE cand.port,
        comment |-> cand.comment]

(* What one HTTPS request of _single_test meets: an exception of the       *)
(* transport, the timeout, or a response with a status and a trace body    *)
(* (its ip and colo fields, "" when the body lacks the field), received    *)
(* after `latency` ms.                                                     *)
Resp(k, st, ip, colo, lat) ==
  [kind |-> k, status |-> st, ip |-> ip, colo |-> colo, latency |-> lat]
FailResponses ==
  { Resp("error", 0, "", "", 0),
    Resp("timeout", 0, "", "", 0),
    Resp("http", 503, OtherIp, "LAX", 10),
    Resp("http", 200, "", "LAX", 10),
    Resp("http", 200, OtherIp, "", 10) }
\* the complete responses tried for a request to `host`: one reporting the
\* dialed address, one reporting another IPv4 address, one reporting an IPv6 one
OkResponses(host) ==
  { Resp("http", 200, host, "LAX", 10),
    Resp("http", 200, OtherIp, "LAX", 30),
    Resp("http", 200, Ipv6Ip, "FRA", 30) }
Responses(host) == FailResponses \cup OkResponses(host)

\* an exception that leaves a coroutine
Raised == [kind |-> "Raised"]
\* a task that has not returned yet
Pending == [kind |-> "Pending"]

(* ------------------------------ strings -------------------------------- *)
(* A string the code takes apart (a port, a line of the proxy list) is a   *)
(* sequence of one-character strings.                                       *)
Digits == << "0", "1", "2", "3", "4", "5", "6", "7", "8", "9" >>
IsDigit(c) == \E k \in 1..Len(Digits) : Digits[k] = c
DigitVal(c) == (CHOOSE k \in 1..Len(Digits) : Digits[k] = c) - 1

RECURSIVE lstrip(_)
lstrip(s) == IF s # << >> /\ Head(s) = " " THEN lstrip(Tail(s)) ELSE s
RECURSIVE rstrip(_)
rstrip(s) == IF s # << >> /\ s[Len(s)] = " " THEN rstrip(SubSeq(s, 1, Len(s) - 1)) ELSE s
\* str.strip()
strip(s) == rstrip(lstrip(s))

AllDigits(s) == s # << >> /\ \A k \in 1..Len(s) : IsDigit(s[k])
RECURSIVE DigitsValue(_, _)
DigitsValue(s, acc) ==
  IF s = << >> THEN acc ELSE DigitsValue(Tail(s), 10 * acc + DigitVal(Head(s)))

\* int(s) of a string: surrounding blanks and one sign are allowed, then
\* decimal digits; anything else raises ValueError
int(s) ==
  LET t == strip(s)
      signed == t # << >> /\ Head(t) \in {"+", "-"}
      body == IF signed THEN Tail(t) ELSE t
  IN IF ~AllDigits(body) THEN Raised
     ELSE [kind |-> "int",
           value |-> IF signed /\ Head(t) = "-" THEN 0 - DigitsValue(body, 0)
                     ELSE DigitsValue(body, 0)]

\* the target_port strings of the runs tried: "443", and one that is no number
TargetPortStr == << "4", "4", "3" >>
TargetPorts == {TargetPortStr, << "w", "e", "b" >>}

\* _single_test whose handler does not cover the timeout (a narrower `except`)
_single_test_timeout_escapes(ip, port, resp) ==
  IF resp.kind = "timeout" THEN Raised
  ELSE IF resp.kind # "http" \/ resp.status # 200 \/ resp.ip = "" \/ resp.colo = ""
  THEN None
  ELSE [kind |-> "dict", ip |-> ip, port |-> port, latency |-> resp.latency,
        colo |-> resp.colo,
        type |-> IF HasColon(resp.ip) \/ resp.ip = ip THEN "proxy" ELSE "official",
        response_ip |-> resp.ip]

\* _single_test(ip, port, timeout): the dict of a successful attempt, or None
_single_test(ip, port, resp) ==
  IF resp.kind # "http"
  THEN None                                   \* except Exception: return None
  ELSE IF resp.status # 200
  THEN None                                   \* line 397
  ELSE IF resp.ip = "" \/ resp.colo = ""
  THEN None                                   \* line 379 fails, line 397
  ELSE [kind |-> "dict", ip |-> ip, port |-> port, latency |-> resp.latency,
        colo |-> resp.colo,
        type |-> IF HasColon(resp.ip) \/ resp.ip = ip THEN "proxy" ELSE "official",
        response_ip |-> resp.ip]

\* _get_country_from_colo: the static table (the later entry of a repeated key
\* wins), then the remote location list (`remote`: its cca2, "" when the
\* lookup fails or has no entry), then the colo code itself
_get_country_from_colo(colo, remote) ==
  CASE colo = "LAX" -> "US"
    [] colo = "FRA" -> "DE"
    [] OTHER -> IF remote # "" THEN remote ELSE colo

IPResult(ip, port, latency, colo, country, type) ==
  [kind |-> "IPResult", ip |-> ip, port |-> port, latency |-> latency,
   colo |-> colo, country |-> country, type |-> type]

\* test_ip whose loop runs once more than range(1, 4) does
test_ip_loop_one_more(parsed, att, resp) ==
  LET result == _single_test(parsed.host, parsed.port, resp) IN
  IF result # None
  THEN [returns |-> TRUE, ok |-> TRUE,
        value |-> IPResult(parsed.host, parsed.port, result.latency, result.colo,
                           _get_country_from_colo(result.colo, ""), result.type)]
  ELSE IF att <= MaxAttempts
  THEN [returns |-> FALSE, ok |-> FALSE, value |-> None]
  ELSE [returns |-> TRUE, ok |-> FALSE, value |-> None]

(* One iteration of the retry loop of test_ip for a parsed candidate:      *)
(* attempt number `att` met `resp`.  The loop either returns (an IPResult  *)
(* or, after the last attempt, None) or sleeps and goes round again.  The  *)
(* loop has no handler of its own: what _single_test raises leaves test_ip.*)
test_ip_loop(parsed, att, resp) ==
  LET result == _single_test(parsed.host, parsed.port, resp) IN
  IF result = Raised
  THEN [returns |-> TRUE, ok |-> FALSE, value |-> Raised]
  ELSE IF result # None
  THEN [returns |-> TRUE, ok |-> TRUE,
        value |-> IPResult(parsed.host, parsed.port, result.latency, result.colo,
                           _get_country_from_colo(result.colo, ""), result.type)]
  ELSE IF att < MaxAttempts
  THEN [returns |-> FALSE, ok |-> FALSE, value |-> None]   \* await asyncio.sleep(0.2)
  ELSE [returns |-> TRUE, ok |-> FALSE, value |-> None]

(* ------------------------------ state --------------------------------- *)
VARIABLES
  max_concurrent,   \* self.max_concurrent, the bound C
  target_count,     \* self.target_count, the target T
  rpc,              \* where get_country_ips_from_all_sources stands; "direct"
                    \* when a scheduler is called on its own
  src,              \* index into ip_sources of the source being tried
  tried,            \* the sources acquired so far, in order
  all_results,      \* all_results of get_country_ips_from_all_sources
  final_results,    \* its return value
  mode,             \* the scheduler running: "A" or "B"
  ips,              \* the candidate list of the batch
  pc,               \* per task: "new", "waiting", "attempt", "backoff", "done"
  attempt,          \* per task: the attempts (_single_test calls) started
  sleeps,           \* per task: the backoff sleeps started
  outcome,          \* per task: `result` of its latest attempt: "ok", "fail"; "none" before
  task_result,      \* per task: what the task returned (or raised), Pending before
  probed,           \* the tasks that called test_ip
  semaphore,        \* the free slots of asyncio.Semaphore(max_concurrent)
  stop_event,       \* asyncio.Event of mode B
  results,          \* results of the batch
  country_results,  \* country_results of mode B
  completed_tests,  \* completed_tests of the batch
  announced,        \* how often the "found enough" line was printed in the batch
  sched,            \* "running" until asyncio.gather returns, then "returned"
  returned,         \* the list the scheduler returned
  target_port,      \* the target_port argument of the run, a string
  fetched,          \* how the fetch of the raw list of the source being probed ended
  stopped_before,   \* history: the signal of an earlier batch of the run was set
                    \* when that batch returned
  call,             \* a function called on its own: its name and arguments
  ret,              \* what that function returned, Pending before
  gen               \* the locals of _generate_ips_from_cidrs while it runs

cfg_vars == << max_concurrent, target_count, target_port >>
run_vars == << rpc, src, tried, fetched, stopped_before, all_results, final_results >>
task_vars == << pc, attempt, sleeps, outcome, task_result, probed >>
shared_vars == << semaphore, stop_event, results, country_results, completed_tests,
                  announced >>
batch_vars == << mode, ips, task_vars, shared_vars, sched, returned >>
fn_vars == << call, ret, gen >>
vars == << cfg_vars, run_vars, batch_vars, fn_vars >>

Tasks == 1..Len(ips)
InFlight == {i \in Tasks : pc[i] \in {"attempt", "backoff"}}
AllDone == \A i \in Tasks : pc[i] = "done"

\* the candidate lists of at most n candidates drawn from S
ListsUpTo(S, n) == UNION {[1..k -> S] : k \in 0..n}

\* a batch that starts with the signal as the batches before it left it
BatchStart_keeps_signal(m, cands) ==
  /\ mode' = m
  /\ ips' = cands
  /\ pc' = [i \in 1..Len(cands) |-> "new"]
  /\ attempt' = [i \in 1..Len(cands) |-> 0]
  /\ sleeps' = [i \in 1..Len(cands) |-> 0]
  /\ outcome' = [i \in 1..Len(cands) |-> "none"]
  /\ task_result' = [i \in 1..Len(cands) |-> Pending]
  /\ probed' = {}
  /\ semaphore' = max_concurrent
  /\ stop_event' = stopped_before
  /\ results' = << >>
  /\ country_results' = << >>
  /\ completed_tests' = 0
  /\ announced' = 0
  /\ sched' = "running"

(* The state a scheduler starts a batch in: lines 479-486 and 504 of mode  *)
(* A, lines 513-522 and 558 of mode B.  Every task is created and none has *)
(* run yet.                                                                *)
BatchStart(m, cands) ==
  /\ mode' = m
  /\ ips' = cands
  /\ pc' = [i \in 1..Len(cands) |-> "new"]
  /\ attempt' = [i \in 1..Len(cands) |-> 0]
  /\ sleeps' = [i \in 1..Len(cands) |-> 0]
  /\ outcome' = [i \in 1..Len(cands) |-> "none"]
  /\ task_result' = [i \in 1..Len(cands) |-> Pending]
  /\ probed' = {}
  /\ semaphore' = max_concurrent
  /\ stop_event' = FALSE
  /\ results' = << >>
  /\ country_results' = << >>
  /\ completed_tests' = 0
  /\ announced' = 0
  /\ sched' = "running"

(* The scheduler has returned to get_country_ips_from_source: its locals   *)
(* and its tasks are gone.                                                 *)
BatchGone ==
  /\ ips' = << >>
  /\ pc' = << >> /\ attempt' = << >> /\ sleeps' = << >>
  /\ outcome' = << >> /\ task_result' = << >>
  /\ probed' = {}
  /\ semaphore' = max_concurrent
  /\ stop_event' = FALSE
  /\ results' = << >> /\ country_results' = << >>
  /\ completed_tests' = 0 /\ announced' = 0
  /\ sched' = "idle" /\ returned' = << >>

\* test_ip raised: the exception leaves `async with semaphore`, which frees
\* the slot, and ends the task; asyncio.gather(return_exceptions=True) keeps it
task_raises(i, sem) ==
  /\ semaphore' = sem + 1
  /\ pc' = [pc EXCEPT ![i] = "done"]
  /\ task_result' = [task_result EXCEPT ![i] = Raised]
  /\ UNCHANGED << stop_event, results, country_results, completed_tests, announced >>

(* ------------------- mode A: test_ips_with_concurrency ----------------- *)
\* mode A writing back a list it read before the probe: a result appended
\* in the meantime is lost
A_after_test_ip_stale_list(i, r, sem) ==
  /\ completed_tests' = completed_tests + 1
  /\ results' = IF r # None THEN << r >> ELSE results
  /\ semaphore' = sem + 1
  /\ pc' = [pc EXCEPT ![i] = "done"]
  /\ task_result' = [task_result EXCEPT ![i] = r]
  /\ UNCHANGED << country_results, stop_event, announced >>

\* lines 492-501: test_ip returned r to the task, which leaves the semaphore
A_after_test_ip(i, r, sem) ==
  /\ completed_tests' = completed_tests + 1
  /\ results' = IF r # None THEN Append(results, r) ELSE results
  /\ semaphore' = sem + 1
  /\ pc' = [pc EXCEPT ![i] = "done"]
  /\ task_result' = [task_result EXCEPT ![i] = r]
  /\ UNCHANGED << country_results, stop_event, announced >>

(* ------------------- mode B: test_ips_with_early_stop ------------------ *)
\* a threshold that counts the results accumulated from earlier sources
found_enough_with_accumulated(cr) == Len(cr) + Len(all_results) >= target_count

\* the threshold of line 546 reached one result early
found_enough_early(cr) == Len(cr) >= target_count - 1

\* line 546: enough results of the target country are in country_results
found_enough(cr) == Len(cr) >= target_count

\* mode B keeping only the results of the target country in results
B_after_test_ip_only_matches(i, r, sem) ==
  LET match == r # None /\ r.country = target_country
      cr == IF match THEN Append(country_results, r) ELSE country_results
      enough == match /\ Len(cr) >= target_count
  IN /\ completed_tests' = completed_tests + 1
     /\ results' = IF match THEN Append(results, r) ELSE results
     /\ country_results' = cr
     /\ announced' = IF enough THEN announced + 1 ELSE announced
     /\ stop_event' = (stop_event \/ enough)
     /\ semaphore' = sem + 1
     /\ pc' = [pc EXCEPT ![i] = "done"]
     /\ task_result' = [task_result EXCEPT ![i] = r]

\* lines 536-555: test_ip returned r to the task, which leaves the semaphore
B_after_test_ip(i, r, sem) ==
  LET match == r # None /\ r.country = target_country
      cr == IF match THEN Append(country_results, r) ELSE country_results
      enough == match /\ found_enough(cr)
  IN /\ completed_tests' = completed_tests + 1
     /\ results' = IF r # None THEN Append(results, r) ELSE results
     /\ country_results' = cr
     /\ announced' = IF enough THEN announced + 1 ELSE announced   \* line 547
     /\ stop_event' = (stop_event \/ enough)                       \* line 548
     /\ semaphore' = sem + 1
     /\ pc' = [pc EXCEPT ![i] = "done"]
     /\ task_result' = [task_result EXCEPT ![i] = r]

after_test_ip(i, r, sem) ==
  IF r = Raised THEN task_raises(i, sem)
  ELSE IF mode = "A" THEN A_after_test_ip(i, r, sem)
  ELSE B_after_test_ip(i, r, sem)

(* The task holds a slot (sem is the semaphore after its acquire) and calls *)
(* test_ip, lines 287-298: a candidate that does not parse returns None at  *)
(* once, any other starts its first attempt and suspends in the request.    *)
call_test_ip(i, sem) ==
  /\ probed' = probed \cup {i}
  /\ IF _parse_ip_format(ips[i], TargetPort) = None
     THEN /\ after_test_ip(i, None, sem)
          /\ UNCHANGED << attempt, sleeps, outcome >>
     ELSE /\ pc' = [pc EXCEPT ![i] = "attempt"]
          /\ attempt' = [attempt EXCEPT ![i] = 1]
          /\ semaphore' = sem
          /\ UNCHANGED << sleeps, outcome, task_result, stop_event, results,
                          country_results, completed_tests, announced >>

\* an acquire that lets one task too many in
can_acquire_one_more == semaphore >= 0

\* the acquire of `async with semaphore` succeeds only with a free slot
can_acquire == semaphore > 0

\* the task waits for a slot
wait_for_slot(i) ==
  /\ pc' = [pc EXCEPT ![i] = "waiting"]
  /\ UNCHANGED << attempt, sleeps, outcome, task_result, probed, shared_vars >>

\* mode A, lines 490-491: the task runs until it waits for a slot or for its request
A_TaskStart(i) ==
  /\ sched = "running" /\ mode = "A" /\ pc[i] = "new"
  /\ IF can_acquire THEN call_test_ip(i, semaphore - 1) ELSE wait_for_slot(i)
  /\ UNCHANGED << cfg_vars, fn_vars, run_vars, mode, ips, sched, returned >>

\* mode A: a waiting task gets a slot
A_TaskAdmit(i) ==
  /\ sched = "running" /\ mode = "A" /\ pc[i] = "waiting"
  /\ can_acquire
  /\ call_test_ip(i, semaphore - 1)
  /\ UNCHANGED << cfg_vars, fn_vars, run_vars, mode, ips, sched, returned >>

\* a task that finds the event set and goes on waiting instead of returning
B_skip_keeps_waiting(i) ==
  /\ pc' = [pc EXCEPT ![i] = "waiting"]
  /\ UNCHANGED << attempt, sleeps, outcome, task_result, probed, shared_vars >>

\* the task returns None without a probe (lines 528-529 and 532-533); a slot
\* it took at line 531 is given back
B_skip(i) ==
  /\ pc' = [pc EXCEPT ![i] = "done"]
  /\ task_result' = [task_result EXCEPT ![i] = None]
  /\ UNCHANGED << attempt, sleeps, outcome, probed, shared_vars >>

\* a task that does not look at the event before it takes a slot and probes
B_TaskStart_no_look(i) ==
  /\ sched = "running" /\ mode = "B" /\ pc[i] = "new"
  /\ IF can_acquire THEN call_test_ip(i, semaphore - 1) ELSE wait_for_slot(i)
  /\ UNCHANGED << cfg_vars, fn_vars, run_vars, mode, ips, sched, returned >>

\* mode B, lines 528-535: the task runs until it returns or suspends
B_TaskStart(i) ==
  /\ sched = "running" /\ mode = "B" /\ pc[i] = "new"
  /\ IF stop_event THEN B_skip(i)
     ELSE IF can_acquire THEN call_test_ip(i, semaphore - 1)
     ELSE wait_for_slot(i)
  /\ UNCHANGED << cfg_vars, fn_vars, run_vars, mode, ips, sched, returned >>

\* mode B without the second look at the event (lines 532-533)
B_TaskAdmit_no_recheck(i) ==
  /\ sched = "running" /\ mode = "B" /\ pc[i] = "waiting"
  /\ can_acquire
  /\ call_test_ip(i, semaphore - 1)
  /\ UNCHANGED << cfg_vars, fn_vars, run_vars, mode, ips, sched, returned >>

\* mode B, lines 531-535: a waiting task gets a slot and looks at the event
B_TaskAdmit(i) ==
  /\ sched = "running" /\ mode = "B" /\ pc[i] = "waiting"
  /\ can_acquire
  /\ IF stop_event THEN B_skip(i) ELSE call_test_ip(i, semaphore - 1)
  /\ UNCHANGED << cfg_vars, fn_vars, run_vars, mode, ips, sched, returned >>

(* --------------------------- test_ip, the loop ------------------------- *)
\* test_ip giving up after a failed attempt once the event is set
AttemptDone_abort_on_stop(i, resp) ==
  /\ sched = "running" /\ pc[i] = "attempt"
  /\ LET step == test_ip_loop(_parse_ip_format(ips[i], TargetPort), attempt[i], resp) IN
     /\ outcome' = [outcome EXCEPT ![i] = IF step.ok THEN "ok" ELSE "fail"]
     /\ IF step.returns \/ stop_event
        THEN /\ after_test_ip(i, step.value, semaphore)
             /\ UNCHANGED << attempt, sleeps, probed >>
        ELSE /\ pc' = [pc EXCEPT ![i] = "backoff"]
             /\ sleeps' = [sleeps EXCEPT ![i] = @ + 1]
             /\ UNCHANGED << attempt, task_result, probed, shared_vars >>
  /\ UNCHANGED << cfg_vars, fn_vars, run_vars, mode, ips, sched, returned >>

\* lines 297-321: the request of the running attempt ends with resp
AttemptDone(i, resp) ==
  /\ sched = "running" /\ pc[i] = "attempt"
  /\ LET step == test_ip_loop(_parse_ip_format(ips[i], TargetPort), attempt[i], resp) IN
     /\ outcome' = [outcome EXCEPT ![i] = IF step.ok THEN "ok" ELSE "fail"]
     /\ IF step.returns
        THEN /\ after_test_ip(i, step.value, semaphore)
             /\ UNCHANGED << attempt, sleeps, probed >>
        ELSE /\ pc' = [pc EXCEPT ![i] = "backoff"]
             /\ sleeps' = [sleeps EXCEPT ![i] = @ + 1]
             /\ UNCHANGED << attempt, task_result, probed, shared_vars >>
  /\ UNCHANGED << cfg_vars, fn_vars, run_vars, mode, ips, sched, returned >>

\* line 319 ends: the sleep is over and the next attempt starts
BackoffDone(i) ==
  /\ sched = "running" /\ pc[i] = "backoff"
  /\ pc' = [pc EXCEPT ![i] = "attempt"]
  /\ attempt' = [attempt EXCEPT ![i] = @ + 1]
  /\ UNCHANGED << sleeps, outcome, task_result, probed, shared_vars >>
  /\ UNCHANGED << cfg_vars, fn_vars, run_vars, mode, ips, sched, returned >>

\* a gather that returns with the first task that is done
gather_done_first == \E i \in Tasks : pc[i] = "done"

\* lines 507 and 561: await asyncio.gather(*tasks) returns once every task
\* has returned
gather_done == AllDone

\* lines 507-509 and 561-563: asyncio.gather returns and the scheduler
\* returns results
SchedReturn ==
  /\ rpc = "direct" /\ sched = "running" /\ gather_done
  /\ sched' = "returned"
  /\ returned' = results
  /\ UNCHANGED << cfg_vars, fn_vars, run_vars, mode, ips, task_vars, shared_vars >>

(* ------------- a scheduler called on its own candidate list ------------ *)
\* The lists tried hold valid candidates and candidates that do not parse.
\* The tasks of a batch are alike and are resumed in any order, so a list
\* stands for its permutations: only the lists in HostRank order are tried.
SchedCandidates ==
  {l \in ListsUpTo(ValidCandidates \cup {BadCandidate}, MaxIps) :
     \A i \in 1..(Len(l) - 1) : HostRank(l[i].host) <= HostRank(l[i + 1].host)}

InitSched ==
  /\ max_concurrent \in Concurrencies
  /\ target_count \in Targets
  /\ target_port = TargetPortStr
  /\ rpc = "direct" /\ src = 0 /\ tried = << >> /\ fetched = "none"
  /\ stopped_before = FALSE
  /\ all_results = << >> /\ final_results = << >>
  /\ call = None /\ ret = None /\ gen = None
  /\ mode \in {"A", "B"}
  /\ ips \in SchedCandidates
  /\ pc = [i \in 1..Len(ips) |-> "new"]
  /\ attempt = [i \in 1..Len(ips) |-> 0]
  /\ sleeps = [i \in 1..Len(ips) |-> 0]
  /\ outcome = [i \in 1..Len(ips) |-> "none"]
  /\ task_result = [i \in 1..Len(ips) |-> Pending]
  /\ probed = {}
  /\ semaphore = max_concurrent
  /\ stop_event = FALSE
  /\ results = << >> /\ country_results = << >>
  /\ completed_tests = 0 /\ announced = 0
  /\ sched = "running" /\ returned = << >>

NextSched ==
  \/ \E i \in Tasks : A_TaskStart(i)
  \/ \E i \in Tasks : A_TaskAdmit(i)
  \/ \E i \in Tasks : B_TaskStart(i)
  \/ \E i \in Tasks : B_TaskAdmit(i)
  \/ \E i \in Tasks : \E resp \in Responses(ips[i].host) : AttemptDone(i, resp)
  \/ \E i \in Tasks : BackoffDone(i)
  \/ SchedReturn

SpecSched == InitSched /\ [][NextSched]_vars

\* test_ips_with_early_stop called on its own
InitB == InitSched /\ mode = "B"

NextB ==
  \/ \E i \in Tasks : B_TaskStart(i)
  \/ \E i \in Tasks : B_TaskAdmit(i)
  \/ \E i \in Tasks : \E resp \in Responses(ips[i].host) : AttemptDone(i, resp)
  \/ \E i \in Tasks : BackoffDone(i)
  \/ SchedReturn

\* test_ips_with_concurrency called on its own
InitA == InitSched /\ mode = "A"

NextA ==
  \/ \E i \in Tasks : A_TaskStart(i)
  \/ \E i \in Tasks : A_TaskAdmit(i)
  \/ \E i \in Tasks : \E resp \in Responses(ips[i].host) : AttemptDone(i, resp)
  \/ \E i \in Tasks : BackoffDone(i)
  \/ SchedReturn

\* the event loop resumes a task that can run, and every request and every
\* sleep ends
FairSpecA == InitA /\ [][NextA]_vars /\ WF_vars(NextA)

\* the event loop resumes a task that can run, and every request and every
\* sleep ends
FairSpecB == InitB /\ [][NextB]_vars /\ WF_vars(NextB)

(* ------------- the run: get_country_ips_from_all_sources --------------- *)
\* what the HTTP fetch of a source's raw list meets
FetchOutcomes == {"ok", "non200", "exception"}

\* the lists _generate_ips_from_cidrs may return: at most max_ips addresses
\* of the blocks, none twice (it returns list(ips)[:target_count] of a set)
CidrSamples ==
  {l \in ListsUpTo(ValidCandidates, MaxIps) : \A i, j \in 1..Len(l) : l[i] = l[j] => i = j}

\* the lists _get_proxy_ips may return: the lines that parse and name the
\* target port, as "ip:port" or "ip:port#comment"; a line that occurs twice
\* in the text occurs twice in the list.  The texts tried have at most as
\* many such lines as there are addresses.
ProxyCandidates == {[host |-> h, port |-> TargetPort, comment |-> c] : h \in Hosts, c \in {"", "tag"}}
ProxyLists == ListsUpTo(ProxyCandidates, Cardinality(Hosts))

\* get_cf_ips(ip_source, target_port): the candidate lists it may return when
\* the fetch ends as `fetch`
get_cf_ips(ip_source, port, fetch) ==
  IF ip_source = "proxyip"
  THEN IF fetch = "ok" /\ port = TargetPortStr THEN ProxyLists ELSE {<< >>}
  ELSE CASE fetch = "ok" -> CidrSamples                  \* the CIDRs of the text
         [] fetch = "non200" -> CidrSamples \ {<< >>}    \* the built-in CIDR list
         [] OTHER -> {<< >>}                             \* except: return []

RECURSIVE InsertByLatency(_, _)
\* r put into the sorted list s behind every entry whose latency is not larger
InsertByLatency(s, r) ==
  IF s = << >> THEN << r >>
  ELSE IF Head(s).latency <= r.latency THEN << Head(s) >> \o InsertByLatency(Tail(s), r)
  ELSE << r >> \o s

RECURSIVE SortByLatency(_)
\* list.sort(key=lambda x: x.latency): ascending and stable
SortByLatency(s) ==
  IF s = << >> THEN << >>
  ELSE InsertByLatency(SortByLatency(SubSeq(s, 1, Len(s) - 1)), s[Len(s)])

\* f"{r.ip}:{r.port}"
IpPort(r) == << r.ip, r.port >>

\* get_country_ips_from_source without the filter of line 637
source_results_of_unfiltered(res) == SortByLatency(res)

\* lines 633-642 of get_country_ips_from_source: what it makes of the list
\* the scheduler returned
source_results_of(res) ==
  LET is_target(r) == r.country = target_country
  IN SortByLatency(SelectSeq(res, is_target))

\* lines 587-588: the results of the source whose ip:port is not yet accumulated
new_results_of(all, source_results) ==
  LET existing_ips == {IpPort(all[k]) : k \in 1..Len(all)}
      is_new(r) == IpPort(r) \notin existing_ips
  IN SelectSeq(source_results, is_new)

\* s[:n]
Take(s, n) == SubSeq(s, 1, IF n < Len(s) THEN n ELSE Len(s))

\* a run that cuts the list before it sorts it
finish_run_truncate_first(all) ==
  /\ all_results' = SortByLatency(all)
  /\ final_results' = SortByLatency(Take(all, target_count))
  /\ rpc' = "done"
  /\ UNCHANGED src

\* lines 605-618: sort in place, truncate, return
finish_run(all) ==
  /\ all_results' = SortByLatency(all)
  /\ final_results' = Take(all_results', target_count)
  /\ rpc' = "done"
  /\ UNCHANGED src

\* a loop that takes the failed source again
next_source_again(s) == s

\* line 574: the for loop goes on to the next source of the list
next_source(s) == s + 1

\* line 574: the for loop has run through self.ip_sources
sources_exhausted == src > Len(ip_sources)

\* the check of line 575 with > for >=
enough_accumulated_strict == Len(all_results) > target_count

\* line 575: the check at the head of the loop
enough_accumulated == Len(all_results) >= target_count

(* Lines 574-583 and 620-631: the loop takes the next source, acquires its  *)
(* candidates and, unless there are none, starts the batch of mode B.       *)
TrySource ==
  /\ rpc = "loop" /\ ~sources_exhausted
  /\ ~enough_accumulated
  /\ tried' = Append(tried, ip_sources[src])
  /\ \E fetch \in FetchOutcomes :
     \E cands \in get_cf_ips(ip_sources[src], target_port, fetch) :
       IF cands = << >> \/ int(target_port) = Raised
       THEN \* `if not ips: return []` (line 626), or int(target_port) raises
            \* at line 631 and line 646 returns []: lines 598-599
            /\ src' = next_source(src)
            /\ UNCHANGED << rpc, fetched, all_results, final_results, batch_vars >>
       ELSE /\ BatchStart("B", cands)
            /\ rpc' = "probing"
            /\ fetched' = fetch
            /\ UNCHANGED << src, all_results, final_results, returned >>
  /\ UNCHANGED << cfg_vars, fn_vars, stopped_before >>

(* Lines 561-563, 633-642 and 585-597: gather returns, the source's results *)
(* are filtered, sorted and merged, and the loop goes on or breaks.         *)
SourceReturn ==
  /\ rpc = "probing" /\ sched = "running" /\ gather_done
  /\ \E source_results \in {source_results_of(results)} :
     \E merged \in {all_results \o new_results_of(all_results, source_results)} :
       IF source_results # << >> /\ Len(merged) >= target_count
       THEN finish_run(merged)                          \* lines 595-597: break
       ELSE /\ all_results' = (IF source_results # << >> THEN merged ELSE all_results)
            /\ src' = next_source(src)
            /\ rpc' = "loop"
            /\ UNCHANGED final_results
  /\ BatchGone
  /\ fetched' = "none"
  /\ stopped_before' = (stopped_before \/ stop_event)
  /\ UNCHANGED << cfg_vars, fn_vars, tried, mode >>

\* the loop ends (line 574 exhausted, or the break of lines 575-577)
Finish ==
  /\ rpc = "loop"
  /\ sources_exhausted \/ enough_accumulated
  /\ finish_run(all_results)
  /\ UNCHANGED << cfg_vars, fn_vars, tried, fetched, stopped_before, batch_vars >>

Init ==
  /\ max_concurrent \in Concurrencies
  /\ target_count \in 0..MaxIps
  /\ target_port \in TargetPorts
  /\ rpc = "loop" /\ src = 1 /\ tried = << >> /\ fetched = "none"
  /\ stopped_before = FALSE
  /\ all_results = << >> /\ final_results = << >>
  /\ call = None /\ ret = None /\ gen = None
  /\ mode = "B"
  /\ ips = << >>
  /\ pc = << >> /\ attempt = << >> /\ sleeps = << >>
  /\ outcome = << >> /\ task_result = << >>
  /\ probed = {}
  /\ semaphore = max_concurrent
  /\ stop_event = FALSE
  /\ results = << >> /\ country_results = << >>
  /\ completed_tests = 0 /\ announced = 0
  /\ sched = "idle" /\ returned = << >>

Next ==
  \/ TrySource
  \/ \E i \in Tasks : B_TaskStart(i)
  \/ \E i \in Tasks : B_TaskAdmit(i)
  \/ \E i \in Tasks : \E resp \in Responses(ips[i].host) : AttemptDone(i, resp)
  \/ \E i \in Tasks : BackoffDone(i)
  \/ SourceReturn
  \/ Finish

Spec == Init /\ [][Next]_vars

\* the run when the event loop resumes whatever can run and every fetch,
\* request and sleep ends
FairSpec == Init /\ [][Next]_vars /\ WF_vars(Next)

(* ------------- functions called on their own arguments ----------------- *)
\* no scheduler is running and no batch exists
NoBatch ==
  /\ mode = "B" /\ ips = << >>
  /\ pc = << >> /\ attempt = << >> /\ sleeps = << >>
  /\ outcome = << >> /\ task_result = << >>
  /\ probed = {}
  /\ semaphore = max_concurrent
  /\ stop_event = FALSE
  /\ results = << >> /\ country_results = << >>
  /\ completed_tests = 0 /\ announced = 0
  /\ sched = "idle" /\ returned = << >>

(* Lines 605-607 on an accumulated list of its own: the loop of line 574   *)
(* has ended with `accumulated` in all_results.  The k-th result of a list *)
(* has the k-th address of RankIps, so that equal latencies can be told    *)
(* apart.                                                                  *)
RankIps == << "1.1.1.1", "1.0.0.1", "1.1.1.2" >>
RankLatencies == {10, 30, 50}
RankLists ==
  { [k \in 1..Len(lat) |->
       IPResult(RankIps[k], TargetPort, lat[k], "LAX", target_country, "official")] :
      lat \in UNION {[1..m -> RankLatencies] : m \in 0..Len(RankIps)} }

InitRank ==
  /\ max_concurrent = 1
  /\ target_count \in 0..MaxIps
  /\ target_port = TargetPortStr
  /\ call \in {[fn |-> "rank", all_results |-> l] : l \in RankLists}
  /\ rpc = "loop" /\ src = Len(ip_sources) + 1 /\ tried = ip_sources /\ fetched = "none"
  /\ stopped_before = FALSE
  /\ all_results = call.all_results /\ final_results = << >>
  /\ ret = None /\ gen = None
  /\ NoBatch

NextRank == Finish

SpecRank == InitRank /\ [][NextRank]_vars

(* ---------------- the sampler: _generate_ips_from_cidr(s) --------------- *)
\* while ... and round_num <= 100
MaxRounds == 100
\* max_attempts = actual_count * 10
AttemptsPerCount == 10

RECURSIVE Pow2(_)
Pow2(k) == IF k = 0 THEN 1 ELSE 2 * Pow2(k - 1)

\* an IPv4Address is its 32-bit number; str() of it is the dotted quad, here
\* the tuple of its four octets
str_ip(n) == << n \div 16777216, (n \div 65536) % 256, (n \div 256) % 256, n % 256 >>
\* the number of a dotted quad
ip_value(q) == ((q[1] * 256 + q[2]) * 256 + q[3]) * 256 + q[4]

\* a CIDR string "a.b.c.d/p", and a string that is none
Cidr(q, p) == [kind |-> "cidr", addr |-> ip_value(q), prefix |-> p]
MalformedCidr == [kind |-> "malformed", addr |-> 0, prefix |-> 0]
\* the blocks tried: two /30 that do not meet, a /30 written with host bits
\* set (the network of the first), the /29 that contains both, a /31 and a /32
Block30a == Cidr(<< 1, 1, 1, 0 >>, 30)
Block30a_hostbits == Cidr(<< 1, 1, 1, 1 >>, 30)
Block30b == Cidr(<< 1, 1, 1, 4 >>, 30)
Block29 == Cidr(<< 1, 1, 1, 0 >>, 29)
Block31 == Cidr(<< 1, 1, 1, 2 >>, 31)
Block32 == Cidr(<< 1, 1, 1, 1 >>, 32)

\* ipaddress.IPv4Network(cidr, strict=False): the host bits are masked out;
\* a malformed string raises
IPv4Network(cidr) ==
  IF cidr.kind # "cidr" \/ cidr.prefix \notin 0..32 THEN Raised
  ELSE LET num == Pow2(32 - cidr.prefix)
       IN [kind |-> "network", network_address |-> cidr.addr - (cidr.addr % num),
           num_addresses |-> num]

\* max_hosts of line 263
max_hosts_of(network) == network.num_addresses - 2

\* a draw that may hit the network address
random_offsets_from_zero(max_hosts) == 0..max_hosts

\* line 276: random.randint(1, max_hosts)
random_offsets(max_hosts) == 1..max_hosts

\* list(ips): the elements of a set in some order
list_of(S) == {l \in [1..Cardinality(S) -> S] : \A i, j \in 1..Cardinality(S) : l[i] = l[j] => i = j}

(* _generate_ips_from_cidr(cidr, count) up to its loop, lines 261-272: the  *)
(* locals with which the loop starts, or the list returned before it.       *)
cidr_prelude(cidr, count) ==
  LET network == IPv4Network(cidr) IN
  IF network = Raised THEN [returns |-> TRUE, value |-> << >>]     \* lines 283-285
  ELSE IF max_hosts_of(network) <= 0 THEN [returns |-> TRUE, value |-> << >>]
  ELSE [returns |-> FALSE, network |-> network, max_hosts |-> max_hosts_of(network),
        actual_count |-> IF count < max_hosts_of(network) THEN count
                         ELSE max_hosts_of(network),
        ips |-> {}, attempts |-> 0]

\* a list returned
List(l) == [kind |-> "list", value |-> l]

\* the call starts: lines 261-272
CidrCall ==
  /\ call # None /\ call.fn = "_generate_ips_from_cidr" /\ gen = None /\ ret = Pending
  /\ LET p == cidr_prelude(call.cidr, call.count) IN
     IF p.returns
     THEN ret' = List(p.value) /\ gen' = [pc |-> "done"]
     ELSE ret' = ret /\ gen' = [pc |-> "loop", network |-> p.network,
                                max_hosts |-> p.max_hosts, actual_count |-> p.actual_count,
                                ips |-> p.ips, attempts |-> p.attempts]
  /\ UNCHANGED << cfg_vars, run_vars, batch_vars, call >>

\* lines 274-281: one turn of the loop, and the return when the loop ends
CidrDraw ==
  /\ call # None /\ call.fn = "_generate_ips_from_cidr" /\ gen # None /\ gen.pc = "loop"
  /\ Cardinality(gen.ips) < gen.actual_count
  /\ gen.attempts < gen.actual_count * AttemptsPerCount
  /\ \E random_offset \in random_offsets(gen.max_hosts) :
       LET random_ip == str_ip(gen.network.network_address + random_offset)
           ips1 == gen.ips \cup {random_ip}
           attempts1 == gen.attempts + 1
       IN IF Cardinality(ips1) < gen.actual_count
             /\ attempts1 < gen.actual_count * AttemptsPerCount
          THEN /\ gen' = [gen EXCEPT !.ips = ips1, !.attempts = attempts1]
               /\ ret' = ret
          ELSE /\ gen' = [gen EXCEPT !.ips = ips1, !.attempts = attempts1, !.pc = "done"]
               /\ ret' \in {List(l) : l \in list_of(ips1)}
  /\ UNCHANGED << cfg_vars, run_vars, batch_vars, call >>

\* the calls tried: every block and a malformed string, with the counts the
\* first rounds ask for
CidrBlocks == {Block30a, Block30a_hostbits, Block30b, Block29, Block31, Block32, MalformedCidr}
InitCidr ==
  /\ max_concurrent = 1 /\ target_count = 1 /\ target_port = TargetPortStr
  /\ rpc = "direct" /\ src = 0 /\ tried = << >> /\ fetched = "none"
  /\ stopped_before = FALSE
  /\ all_results = << >> /\ final_results = << >>
  /\ NoBatch
  /\ call \in {[fn |-> "_generate_ips_from_cidr", cidr |-> c, count |-> n] :
                c \in CidrBlocks, n \in 1..(MaxIps + 1)}
  /\ ret = Pending /\ gen = None

NextCidr == CidrCall \/ CidrDraw

SpecCidr == InitCidr /\ [][NextCidr]_vars

(* What one call _generate_ips_from_cidr(cidr, count) may return, as a set: *)
(* nothing for a malformed string or a block without usable hosts;         *)
(* otherwise the loop of lines 274-279 adds its first draw and stops at    *)
(* actual_count addresses or when its attempts are used up, so that every  *)
(* set of 1 to actual_count host addresses of the block can come back.     *)
cidr_results(cidr, count) ==
  LET p == cidr_prelude(cidr, count) IN
  IF p.returns THEN {{}}
  ELSE LET hosts == {str_ip(p.network.network_address + o) : o \in random_offsets(p.max_hosts)}
       IN {R \in SUBSET hosts : Cardinality(R) >= 1 /\ Cardinality(R) <= p.actual_count}

\* a return that hands back the whole set
list_prefix_whole(S, n) == list_of(S)

\* list(ips)[:n]: the first n elements of the set in some order
list_prefix(S, n) ==
  LET m == IF n < Cardinality(S) THEN n ELSE Cardinality(S)
  IN {l \in [1..m -> S] : \A i, j \in 1..m : l[i] = l[j] => i = j}

\* _generate_ips_from_cidrs starts: lines 238-240
GenCall ==
  /\ call # None /\ call.fn = "_generate_ips_from_cidrs" /\ gen = None /\ ret = Pending
  /\ gen' = [pc |-> "while", ips |-> {}, target_count |-> call.max_ips, round_num |-> 1,
             k |-> 1]
  /\ UNCHANGED << cfg_vars, run_vars, batch_vars, call, ret >>

\* a loop that goes on to the round cap whatever the set holds
while_goes_on_to_cap(g) == g.round_num <= MaxRounds

\* line 242: the condition of the while loop
while_goes_on(g) == Cardinality(g.ips) < g.target_count /\ g.round_num <= MaxRounds

\* line 242: the head of the while loop; lines 256-257 when it ends
GenWhile ==
  /\ gen # None /\ gen.pc = "while"
  /\ IF while_goes_on(gen)
     THEN gen' = [gen EXCEPT !.pc = "for", !.k = 1] /\ ret' = ret
     ELSE gen' = [gen EXCEPT !.pc = "done"] /\ ret' \in {List(l) : l \in list_prefix(gen.ips, gen.target_count)}
  /\ UNCHANGED << cfg_vars, run_vars, batch_vars, call >>

\* lines 245-254: one turn of the for loop over the blocks (the call of
\* _generate_ips_from_cidr with count = round_num and the update of the
\* set), or its end, with round_num += 1
GenFor ==
  /\ gen # None /\ gen.pc = "for"
  /\ IF gen.k > Len(call.cidrs) \/ Cardinality(gen.ips) >= gen.target_count
     THEN gen' = [gen EXCEPT !.pc = "while", !.round_num = @ + 1]
     ELSE \E cidr_ips \in cidr_results(call.cidrs[gen.k], gen.round_num) :
            gen' = [gen EXCEPT !.ips = @ \cup cidr_ips, !.k = @ + 1]
  /\ UNCHANGED << cfg_vars, run_vars, batch_vars, call, ret >>

\* the lists of blocks tried, with max_ips from 0
GenBlocks == {Block30a, Block30a_hostbits, Block30b, Block29, Block31, MalformedCidr}
InitGen ==
  /\ max_concurrent = 1 /\ target_count = 1 /\ target_port = TargetPortStr
  /\ rpc = "direct" /\ src = 0 /\ tried = << >> /\ fetched = "none"
  /\ stopped_before = FALSE
  /\ all_results = << >> /\ final_results = << >>
  /\ NoBatch
  /\ call \in {[fn |-> "_generate_ips_from_cidrs", cidrs |-> l, max_ips |-> n] :
                l \in ListsUpTo(GenBlocks, 2), n \in 0..MaxIps}
  /\ ret = Pending /\ gen = None

NextGen == GenCall \/ GenWhile \/ GenFor

SpecGen == InitGen /\ [][NextGen]_vars

\* the sampler and the draw from one block, each called on its own; the code
\* is sequential, so a call that can take a step takes it
\* the lists of blocks tried: two /30 that do not meet, a /31, a /32 and a
\* malformed string
SamplerBlocks == {Block30a, Block30b, Block31, Block32, MalformedCidr}
InitSamplerGen ==
  /\ max_concurrent = 1 /\ target_count = 1 /\ target_port = TargetPortStr
  /\ rpc = "direct" /\ src = 0 /\ tried = << >> /\ fetched = "none"
  /\ stopped_before = FALSE
  /\ all_results = << >> /\ final_results = << >>
  /\ NoBatch
  /\ call \in {[fn |-> "_generate_ips_from_cidrs", cidrs |-> l, max_ips |-> n] :
                l \in ListsUpTo(SamplerBlocks, 2), n \in 0..MaxIps}
  /\ ret = Pending /\ gen = None
InitSampler == InitSamplerGen \/ InitCidr
NextSampler == NextGen \/ NextCidr
FairSpecSampler == InitSampler /\ [][NextSampler]_vars /\ WF_vars(NextSampler)

(* ------------------ the proxy list: _parse_proxy_ip_line ---------------- *)
\* ch in s
Contains(s, ch) == \E k \in 1..Len(s) : s[k] = ch
\* the place of the first ch in s
IndexOf(s, ch) == CHOOSE k \in 1..Len(s) : s[k] = ch /\ \A j \in 1..(k - 1) : s[j] # ch

RECURSIVE split(_, _)
\* s.split(ch): the pieces of s between the occurrences of ch
split(s, ch) ==
  IF ~Contains(s, ch) THEN << s >>
  ELSE << SubSeq(s, 1, IndexOf(s, ch) - 1) >>
         \o split(SubSeq(s, IndexOf(s, ch) + 1, Len(s)), ch)

\* s.split(ch, 1) of a string that holds ch: the parts before and after the first
split_once(s, ch) ==
  << SubSeq(s, 1, IndexOf(s, ch) - 1), SubSeq(s, IndexOf(s, ch) + 1, Len(s)) >>

\* one octet as ipaddress reads it: one to three decimal digits, no leading
\* zero before another digit, at most 255
octet_ok(o) ==
  /\ AllDigits(o) /\ Len(o) <= 3
  /\ (Len(o) > 1 => o[1] # "0")
  /\ DigitsValue(o, 0) <= 255

\* _is_valid_ip(ip) on the characters of ip: ipaddress.IPv4Address(ip)
\* accepts four octets separated by dots
_is_valid_ip_text(ip) ==
  LET octets == split(ip, ".")
  IN Len(octets) = 4 /\ \A k \in 1..4 : octet_ok(octets[k])

\* a string returned
Str(s) == [kind |-> "str", value |-> s]

\* a comparison of the two ports as numbers
port_matches_by_value(port, target) == int(port) = int(target)

\* line 216: `port != target_port` compares the two strings
port_matches(port, target) == port = target

\* _parse_proxy_ip_line(line, target_port): the candidate string, or None
_parse_proxy_ip_line(line0, target) ==
  LET line == strip(line0) IN
  IF line = << >> THEN None                                     \* lines 176-177
  ELSE
    LET has_comment == Contains(line, "#")
        main_part == IF has_comment THEN strip(split_once(line, "#")[1]) ELSE line
        comment == IF has_comment THEN strip(split_once(line, "#")[2]) ELSE << >>
        ip_port_parts == split(main_part, ":")
    IN IF Contains(main_part, ":") /\ Len(ip_port_parts) # 2 THEN None   \* line 198
       ELSE
         LET ip == IF Contains(main_part, ":") THEN strip(ip_port_parts[1]) ELSE main_part
             port == IF Contains(main_part, ":") THEN strip(ip_port_parts[2])
                     ELSE << "4", "4", "3" >>
         IN IF ~_is_valid_ip_text(ip) THEN None                          \* line 205
            ELSE IF int(port) = Raised THEN None                         \* line 213
            ELSE IF int(port).value < 1 \/ int(port).value > 65535 THEN None
            ELSE IF ~port_matches(port, target) THEN None                \* line 217
            ELSE IF comment # << >>
            THEN Str(ip \o << ":" >> \o port \o << "#" >> \o comment)
            ELSE Str(ip \o << ":" >> \o port)

(* The lines tried are put together from an address, what follows it up   *)
(* to the comment, and a comment, with or without blanks around the line.  *)
(* Each part is written down with what it is: whether the address is a     *)
(* valid IPv4 address, the text and the value of the port (-1 when the     *)
(* text is no number), the text of the comment.                            *)
ParseIps ==
  { [text |-> << "1", ".", "2", ".", "3", ".", "4" >>, ok |-> TRUE],
    [text |-> << "1", "0", ".", "0", ".", "2", "5", "5", ".", "1" >>, ok |-> TRUE],
    [text |-> << "9", "9", "9", ".", "1", ".", "1", ".", "1" >>, ok |-> FALSE],
    [text |-> << "1", ".", "2", ".", "3" >>, ok |-> FALSE],
    [text |-> << >>, ok |-> FALSE],
    [text |-> << "1", ".", "2", ".", "3", ".", "x" >>, ok |-> FALSE],
    [text |-> << "1", ".", "2", ".", "3", ".", "4", ".", "5" >>, ok |-> FALSE] }
ParsePorts ==
  { [text |-> << >>, port |-> << "4", "4", "3" >>, num |-> 443],
    [text |-> << ":", "4", "4", "3" >>, port |-> << "4", "4", "3" >>, num |-> 443],
    [text |-> << ":", "8", "4", "4", "3" >>, port |-> << "8", "4", "4", "3" >>, num |-> 8443],
    [text |-> << ":", "7", "0", "0", "0", "0" >>, port |-> << "7", "0", "0", "0", "0" >>, num |-> 70000],
    [text |-> << ":", "0" >>, port |-> << "0" >>, num |-> 0],
    [text |-> << ":", "6", "5", "5", "3", "5" >>, port |-> << "6", "5", "5", "3", "5" >>, num |-> 65535],
    [text |-> << ":", "6", "5", "5", "3", "6" >>, port |-> << "6", "5", "5", "3", "6" >>, num |-> 65536],
    [text |-> << ":", "a", "b", "c" >>, port |-> << "a", "b", "c" >>, num |-> -1],
    [text |-> << ":" >>, port |-> << >>, num |-> -1],
    [text |-> << ":", "4", "4", "3", ":", "1" >>, port |-> << "4", "4", "3", ":", "1" >>, num |-> -1],
    [text |-> << ":", " ", "4", "4", "3", " " >>, port |-> << "4", "4", "3" >>, num |-> 443],
    [text |-> << ":", "+", "4", "4", "3" >>, port |-> << "+", "4", "4", "3" >>, num |-> 443],
    [text |-> << ":", "0", "4", "4", "3" >>, port |-> << "0", "4", "4", "3" >>, num |-> 443] }
ParseComments ==
  { [text |-> << >>, comment |-> << >>],
    [text |-> << "#", "t", "a", "g" >>, comment |-> << "t", "a", "g" >>],
    [text |-> << "#" >>, comment |-> << >>],
    [text |-> << " ", "#", " ", "t", "a", "g", " " >>, comment |-> << "t", "a", "g" >>],
    [text |-> << "#", "a", "#", "b" >>, comment |-> << "a", "#", "b" >>],
    [text |-> << "#", "a", ":", "b" >>, comment |-> << "a", ":", "b" >>] }
ParseTargets ==
  { << "4", "4", "3" >>, << "8", "4", "4", "3" >>, << "7", "0", "0", "0", "0" >>, << "0", "4", "4", "3" >>, << "+", "4", "4", "3" >> }
ParseMargins == {<< >>, << " " >>}
ParseCalls ==
  { [fn |-> "_parse_proxy_ip_line",
     line |-> m \o a.text \o q.text \o c.text \o m,
     target_port |-> t,
     ip |-> a.text, ip_ok |-> a.ok, port |-> q.port, port_num |-> q.num,
     comment |-> c.comment] :
      m \in ParseMargins, a \in ParseIps, q \in ParsePorts, c \in ParseComments,
      t \in ParseTargets }

InitParse ==
  /\ max_concurrent = 1 /\ target_count = 1 /\ target_port = TargetPortStr
  /\ rpc = "direct" /\ src = 0 /\ tried = << >> /\ fetched = "none"
  /\ stopped_before = FALSE
  /\ all_results = << >> /\ final_results = << >>
  /\ NoBatch
  /\ call \in ParseCalls
  /\ ret = Pending /\ gen = None

\* line 155: the line is parsed
ParseLine ==
  /\ call # None /\ call.fn = "_parse_proxy_ip_line" /\ ret = Pending
  /\ ret' = _parse_proxy_ip_line(call.line, call.target_port)
  /\ UNCHANGED << cfg_vars, run_vars, batch_vars, call, gen >>

NextParse == ParseLine

SpecParse == InitParse /\ [][NextParse]_vars

(* ============================ the claims ============================== *)
\* the results of the target country in a list
Matches(l) == Cardinality({k \in 1..Len(l) : l[k].country = target_country})
\* the tasks whose probe produced a result
WithResult == {i \in Tasks : task_result[i].kind = "IPResult"}

\* C1: in mode A and in mode B alike, for every C >= 1 and every candidate
\* list, the number of probes (test_ip calls) in flight never exceeds C.
C1_InFlightAtMostC == Cardinality(InFlight) <= max_concurrent

\* every slot is taken by a probe in flight and a further task is held back
C1_Witness ==
  /\ Cardinality(InFlight) = max_concurrent
  /\ \E i \in Tasks : pc[i] = "waiting"

\* C2: in mode B, while the stop signal is set no task calls test_ip: a task
\* that has not been admitted yet, whether it has not run or waits for a
\* slot, can only return None, with no attempt made.
C2_NoProbeAfterStop ==
  [][ (mode = "B" /\ stop_event) =>
        /\ probed' = probed
        /\ \A i \in Tasks :
             (pc[i] \in {"new", "waiting"} /\ pc'[i] # pc[i]) =>
               (pc'[i] = "done" /\ task_result'[i] = None /\ attempt'[i] = 0) ]_vars

\* the signal is set while a task waits for a slot, and a slot is free for it
C2_Witness ==
  /\ mode = "B" /\ stop_event /\ semaphore > 0
  /\ \E i \in Tasks : pc[i] = "waiting"

\* C3: in mode B an admitted probe is not aborted, with the signal set or
\* not: it leaves an attempt only for the backoff before the next one, or by
\* returning its result, which is appended to results, or by returning None
\* after the third failure; results only grows, and the scheduler returns
\* only when every task is done, with results as they are then.
C3_AdmittedProbeCompletes ==
  /\ [](sched = "returned" => (AllDone /\ InFlight = {} /\ returned = results))
  /\ [][ mode = "B" =>
           /\ Len(results') >= Len(results)
           /\ SubSeq(results', 1, Len(results)) = results
           /\ \A i \in Tasks :
                (i \in InFlight /\ pc'[i] # pc[i]) =>
                  \/ /\ pc[i] = "attempt" /\ pc'[i] = "backoff"
                     /\ attempt[i] < MaxAttempts /\ attempt'[i] = attempt[i]
                  \/ /\ pc[i] = "backoff" /\ pc'[i] = "attempt"
                     /\ attempt'[i] = attempt[i] + 1
                  \/ /\ pc[i] = "attempt" /\ pc'[i] = "done"
                     /\ \/ task_result'[i] = None /\ attempt[i] = MaxAttempts
                        \/ /\ task_result'[i].kind = "IPResult"
                           /\ results' = Append(results, task_result'[i]) ]_vars

\* with T = 1 the first result set the signal; a probe in flight then went on
\* to its third attempt and its result is the second of the returned list
C3_Witness ==
  /\ mode = "B" /\ sched = "returned" /\ target_count = 1
  /\ Len(returned) >= 2
  /\ returned[1].country = target_country
  /\ \E i \in Tasks : task_result[i] = returned[2] /\ attempt[i] = MaxAttempts
                      /\ task_result[i] # returned[1]

\* what C4 says of the list mode B returns
C4_OnReturn ==
  /\ \/ stop_event /\ Matches(returned) >= target_count
     \/ probed = Tasks
  /\ Matches(returned) < target_count => (~stop_event /\ probed = Tasks)

\* C4: for every C >= 1 and T >= 1, when every request and every sleep ends,
\* mode B returns, and when it has returned either the signal was raised and
\* the list holds at least T results of the target country, or every
\* candidate was probed; a list with fewer than T such results is returned
\* only when every candidate was probed.
C4_ModeBTerminates ==
  /\ (mode = "B") ~> (sched = "returned")
  /\ []((mode = "B" /\ sched = "returned") => C4_OnReturn)

\* mode B returned early: the signal is set and a candidate was never probed
C4_Witness ==
  /\ mode = "B" /\ sched = "returned" /\ stop_event
  /\ probed # Tasks
  /\ Matches(returned) >= target_count

\* C5: mode B drops and filters nothing: at any time every result a probe
\* has produced is in results, whatever its country, results holds nothing
\* else, and the list returned is results.
C5_AllResultsReturned ==
  mode = "B" =>
    /\ \A i \in WithResult : \E k \in 1..Len(results) : results[k] = task_result[i]
    /\ Len(results) = Cardinality(WithResult)
    /\ sched = "returned" => returned = results

\* mode B returned after the signal with a result of another country in the list
C5_Witness ==
  /\ mode = "B" /\ sched = "returned" /\ stop_event
  /\ \E k \in 1..Len(returned) : returned[k].country # target_country

\* C6: within one batch of mode B the "found enough" line is printed at most
\* once, for every interleaving of the probe completions.
C6_AnnouncedAtMostOnce == mode = "B" => announced <= 1

\* C7: test_ip makes at most 3 attempts; an attempt follows only a failed one,
\* after one backoff; the first successful attempt ends the loop with its
\* result; after the third failure there is no backoff and no result.
C7_RetryPolicy ==
  \A i \in Tasks :
    /\ attempt[i] <= MaxAttempts
    /\ pc[i] = "attempt" =>
         /\ attempt[i] >= 1 /\ sleeps[i] = attempt[i] - 1
         /\ attempt[i] > 1 => outcome[i] = "fail"
    /\ pc[i] = "backoff" =>
         /\ outcome[i] = "fail" /\ attempt[i] < MaxAttempts /\ sleeps[i] = attempt[i]
    /\ (pc[i] = "done" /\ attempt[i] >= 1) =>
         /\ sleeps[i] = attempt[i] - 1
         /\ outcome[i] = "ok" => task_result[i].kind = "IPResult"
         /\ outcome[i] = "fail" => (attempt[i] = MaxAttempts /\ task_result[i] = None)
         /\ outcome[i] # "none"

\* one probe failed three times and another succeeded at its second attempt
C7_Witness ==
  /\ \E i \in Tasks : pc[i] = "done" /\ attempt[i] = MaxAttempts /\ sleeps[i] = 2
                      /\ task_result[i] = None /\ i \in probed
  /\ \E j \in Tasks : pc[j] = "done" /\ attempt[j] = 2 /\ outcome[j] = "ok"

\* C8: an attempt that meets a network error, a timeout, a status other than
\* 200 or a body without ip or colo is a failed attempt: the task goes to
\* the backoff before the next attempt or, at the third, test_ip returns
\* None with nothing appended; no task ever ends with an exception.
C8_FailuresAreFailedAttempts ==
  /\ [](\A i \in Tasks : task_result[i] # Raised)
  /\ [][ \A i \in Tasks : \A resp \in FailResponses :
           AttemptDone(i, resp) =>
             /\ outcome'[i] = "fail"
             /\ task_result'[i] # Raised
             /\ \/ attempt[i] < MaxAttempts /\ pc'[i] = "backoff" /\ task_result'[i] = Pending
                \/ /\ attempt[i] = MaxAttempts /\ pc'[i] = "done"
                   /\ task_result'[i] = None /\ results' = results ]_vars

\* a probe whose three attempts failed returned None
C8_Witness ==
  \E i \in Tasks : pc[i] = "done" /\ outcome[i] = "fail" /\ attempt[i] = MaxAttempts
                   /\ task_result[i] = None

\* C9: the accumulated list never holds two entries with the same ip:port.
C9_NoDuplicateIpPort ==
  \A j, k \in 1..Len(all_results) :
    IpPort(all_results[j]) = IpPort(all_results[k]) => j = k

\* C10: a source is acquired, and a batch started, only while the
\* accumulated count is below targetCount.
C10_NoSourceAfterTarget ==
  [][ (tried' # tried \/ (sched' = "running" /\ sched # "running")) =>
        Len(all_results) < target_count ]_vars

\* the run ended with the target reached before the last source was tried
C10_Witness ==
  /\ rpc = "done" /\ target_count >= 1
  /\ Len(all_results) >= target_count
  /\ Len(tried) < Len(ip_sources)

\* C11: sources are acquired in the order of ip_sources, none skipped and
\* none twice: the sources acquired so far are always a prefix of the list,
\* an acquisition adds the next source of the list, and a batch is started
\* only together with the acquisition of a new source.
C11_SourcesInOrderOnce ==
  /\ [](Len(tried) <= Len(ip_sources) /\ tried = SubSeq(ip_sources, 1, Len(tried)))
  /\ [][ /\ tried' # tried => tried' = Append(tried, ip_sources[Len(tried) + 1])
         /\ (sched' = "running" /\ sched # "running") => tried' # tried ]_vars

\* every source was tried, the last ones after sources that gave nothing,
\* and the run ended one result short of the target
C11_Witness ==
  /\ rpc = "done" /\ tried = ip_sources
  /\ target_count = 2 /\ Len(final_results) = 1

\* C12: a source whose fetch did not end with status 200 and a usable list
\* (exception, non-200 status) contributes nothing: when its processing ends
\* the accumulated list is as before and the loop goes on with the next
\* source; a source that ends without a batch leaves the list unchanged too.
C12_FailedSourceContributesNothing ==
  [][ /\ (rpc = "probing" /\ fetched # "ok" /\ rpc' # "probing") =>
           (all_results' = all_results /\ rpc' = "loop" /\ src' = src + 1)
      /\ (tried' # tried /\ rpc' = "loop") =>
           (all_results' = all_results /\ src' = src + 1) ]_vars

\* C13: sources are processed one after the other: tasks exist only while a
\* source is being probed, the probes in flight never exceed C in any
\* source's batch, and the processing of a source ends, and the next source
\* is acquired, only when every task of the batch is done and none is in
\* flight.
C13_SourcesSequential ==
  /\ [](rpc # "probing" => Tasks = {})
  /\ [](Cardinality(InFlight) <= max_concurrent)
  /\ [][ (tried' # tried \/ (rpc = "probing" /\ rpc' # "probing")) =>
           (AllDone /\ InFlight = {}) ]_vars

\* a later source's batch fills every slot, with a task held back, after an
\* earlier source's batch has run and contributed
C13_Witness ==
  /\ rpc = "probing" /\ Len(tried) >= 2 /\ all_results # << >>
  /\ Cardinality(InFlight) = max_concurrent
  /\ \E i \in Tasks : pc[i] = "waiting"

\* C14: when every fetch, request and sleep ends, the run ends for every
\* outcome of the sources; a run that ends below the target has tried every
\* source and returns the accumulated list, empty or not, as its value.
C14_RunTerminates ==
  /\ <>(rpc = "done")
  /\ []((rpc = "done" /\ Len(all_results) < target_count) =>
          (tried = ip_sources /\ final_results = all_results))

\* every source was tried and the run returned the empty list
C14_Witness ==
  /\ rpc = "done" /\ tried = ip_sources
  /\ target_count >= 1 /\ final_results = << >>

\* C15: every result accumulated, and every result returned by the run, is
\* of the target country.
C15_OnlyTargetCountry ==
  /\ \A k \in 1..Len(all_results) : all_results[k].country = target_country
  /\ \A k \in 1..Len(final_results) : final_results[k].country = target_country

\* a batch holds a result of another country while results of an earlier
\* source are accumulated
C15_Witness ==
  /\ rpc = "probing" /\ all_results # << >>
  /\ \E k \in 1..Len(results) : results[k].country # target_country

\* the latencies of a list of results
LatenciesOf(l) == [k \in 1..Len(l) |-> l[k].latency]

\* C16: the list returned is the accumulated list sorted by latency and cut
\* to targetCount: it has min(targetCount, number accumulated) entries in
\* non-decreasing latency; its entries are distinct entries of the
\* accumulated list; entries of equal latency are in insertion order; an
\* entry left out has no lower latency than one kept, and follows in
\* insertion order every kept entry of its latency; [50, 10, 30] with
\* targetCount 2 gives [10, 30].
C16_SortedTruncated ==
  (rpc = "done" /\ call # None /\ call.fn = "rank") =>
    LET acc == call.all_results
        fin == final_results
        n == IF target_count < Len(acc) THEN target_count ELSE Len(acc)
    IN /\ Len(fin) = n
       /\ \A k \in 1..(n - 1) : fin[k].latency <= fin[k + 1].latency
       /\ \E at \in [1..n -> 1..Len(acc)] :
            /\ \A k \in 1..n : fin[k] = acc[at[k]]
            /\ \A j, k \in 1..n : j < k => at[j] # at[k]
            /\ \A j, k \in 1..n :
                 (j < k /\ fin[j].latency = fin[k].latency) => at[j] < at[k]
            /\ \A o \in 1..Len(acc) : (\A k \in 1..n : at[k] # o) =>
                 \A k \in 1..n :
                   /\ acc[o].latency >= fin[k].latency
                   /\ acc[o].latency = fin[k].latency => o > at[k]
       /\ (LatenciesOf(acc) = << 50, 10, 30 >> /\ target_count = 2) =>
            LatenciesOf(fin) = << 10, 30 >>

\* latencies [50, 10, 30] with targetCount 2 gave [10, 30]
C16_Witness ==
  /\ rpc = "done" /\ call # None /\ call.fn = "rank"
  /\ LatenciesOf(call.all_results) = << 50, 10, 30 >> /\ target_count = 2
  /\ LatenciesOf(final_results) = << 10, 30 >>

\* C17: mode A, for every C >= 1, when every request and every sleep ends,
\* returns; a task calls test_ip once, when it leaves the wait for a slot,
\* and never again; when mode A has returned every candidate was probed
\* and the list returned holds exactly the results of the probes that
\* produced one, each once.
C17_ModeAProbesAll ==
  /\ (mode = "A") ~> (sched = "returned")
  /\ [](mode = "A" => \A i \in Tasks : i \in probed <=> pc[i] \notin {"new", "waiting"})
  /\ [][mode = "A" => \A i \in Tasks : i \in probed => pc'[i] \notin {"new", "waiting"}]_vars
  /\ []((mode = "A" /\ sched = "returned") =>
          /\ probed = Tasks
          /\ Len(returned) = Cardinality(WithResult)
          /\ \A i \in WithResult :
               Cardinality({k \in 1..Len(returned) : returned[k] = task_result[i]})
                 = Cardinality({j \in WithResult : task_result[j] = task_result[i]})
          /\ \A i \in Tasks \ WithResult : task_result[i] = None)

\* mode A returned a list of two results although only one probe ran at a
\* time, or one result when the other candidate failed three times
C17_Witness ==
  /\ mode = "A" /\ sched = "returned" /\ max_concurrent = 1 /\ Len(ips) = 2
  /\ Len(returned) = 1
  /\ \E i \in Tasks : task_result[i] = None /\ attempt[i] = MaxAttempts

\* C18: for every list of blocks, overlapping or not, and every target N,
\* _generate_ips_from_cidrs returns at most N addresses and none twice.
C18_SampleUniqueBounded ==
  (call # None /\ call.fn = "_generate_ips_from_cidrs" /\ gen # None /\ gen.pc = "done") =>
    /\ Len(ret.value) <= call.max_ips
    /\ \A i, j \in 1..Len(ret.value) : ret.value[i] = ret.value[j] => i = j

\* from a /29 and a /30 inside it the rounds collected more than N = 2
\* addresses and two were returned
C18_Witness ==
  /\ call # None /\ call.fn = "_generate_ips_from_cidrs" /\ gen # None /\ gen.pc = "done"
  /\ call.cidrs = << Block29, Block30a >> /\ call.max_ips = 2
  /\ Cardinality(gen.ips) > call.max_ips
  /\ Len(ret.value) = call.max_ips

\* the number of addresses of a block, and its network address: the
\* multiple of that number at or next below the address written
BlockSize(c) == Pow2(32 - c.prefix)
BlockNetwork(c) ==
  CHOOSE n \in (c.addr - BlockSize(c) + 1)..c.addr : n % BlockSize(c) = 0
UsableHosts(c) == BlockSize(c) - 2

\* C19: a call of _generate_ips_from_cidr for a block with H >= 1 usable
\* hosts only ever holds, and returns, addresses strictly between the
\* network address and the broadcast address of the block (offsets 1..H),
\* and never more than min(count, H) of them; for a block without usable
\* hosts or a malformed string it returns nothing.
C19_DrawsInsideBlock ==
  (call # None /\ call.fn = "_generate_ips_from_cidr" /\ gen # None) =>
    IF call.cidr.kind = "cidr" /\ UsableHosts(call.cidr) >= 1
    THEN LET net == BlockNetwork(call.cidr)
             broadcast == net + BlockSize(call.cidr) - 1
             H == UsableHosts(call.cidr)
             most == IF call.count < H THEN call.count ELSE H
         IN /\ \A q \in gen.ips :
                 /\ net < ip_value(q) /\ ip_value(q) < broadcast
                 /\ ip_value(q) - net \in 1..H
            /\ Cardinality(gen.ips) <= most
            /\ gen.pc = "done" =>
                 /\ Len(ret.value) <= most
                 /\ {ret.value[k] : k \in 1..Len(ret.value)} = gen.ips
    ELSE gen.pc = "done" /\ ret = List(<< >>)

\* 1.1.1.1/30 with count 3: the two hosts of 1.1.1.0/30 came back
C19_Witness ==
  /\ call # None /\ call.fn = "_generate_ips_from_cidr" /\ gen # None /\ gen.pc = "done"
  /\ call.cidr = Block30a_hostbits /\ call.count = 3
  /\ Len(ret.value) = 2

\* what C20 says the parser returns for a call
ParseAccepts(c) == c.ip_ok /\ c.port_num \in 1..65535 /\ c.port = c.target_port
ParseExpected(c) ==
  c.ip \o << ":" >> \o c.port \o (IF c.comment # << >> THEN << "#" >> \o c.comment ELSE << >>)
Line_1_2_3_4(rest) == << "1", ".", "2", ".", "3", ".", "4" >> \o rest

\* C20: _parse_proxy_ip_line returns a candidate exactly when the address of
\* the line is a valid IPv4 address, its port (443 when the line names none)
\* is a number from 1 to 65535 and the text of the port is the target port;
\* the candidate is ip:port, followed by # and the comment when the line has
\* one.  "1.2.3.4:443#tag" comes back unchanged for target "443" and is
\* dropped for "8443"; "1.2.3.4:70000" and "999.1.1.1:443" are dropped.
C20_ParseProxyLine ==
  (call # None /\ call.fn = "_parse_proxy_ip_line" /\ ret # Pending) =>
    /\ ret # None <=> ParseAccepts(call)
    /\ ParseAccepts(call) => ret = Str(ParseExpected(call))
    /\ call.line = Line_1_2_3_4(<< ":", "4", "4", "3", "#", "t", "a", "g" >>) =>
         /\ call.target_port = << "4", "4", "3" >> => ret = Str(call.line)
         /\ call.target_port = << "8", "4", "4", "3" >> => ret = None
    /\ call.line = Line_1_2_3_4(<< ":", "7", "0", "0", "0", "0" >>) => ret = None
    /\ call.line = << "9", "9", "9", ".", "1", ".", "1", ".", "1", ":", "4", "4", "3" >> =>
         ret = None

\* "1.2.3.4:443#tag" was returned unchanged for target "443"
C20_Witness ==
  /\ call # None /\ call.fn = "_parse_proxy_ip_line"
  /\ call.line = Line_1_2_3_4(<< ":", "4", "4", "3", "#", "t", "a", "g" >>)
  /\ call.target_port = << "4", "4", "3" >>
  /\ ret = Str(call.line)

\* C21: in every round of _generate_ips_from_cidrs, from the first to the
\* last, the turn of one block adds at most one address to the set.
C21_OneAddressPerBlockPerRound ==
  [][ (gen # None /\ call # None /\ call.fn = "_generate_ips_from_cidrs"
       /\ gen.pc = "for" /\ gen'.pc = "for") =>
        Cardinality(gen'.ips) <= Cardinality(gen.ips) + 1 ]_vars

\* C22: a source whose fetch failed (non-200 status or exception) gets
\* candidates, from the built-in CIDR list, only if it is "official": a
\* batch that starts after a failed fetch is a batch of "official".
C22_FallbackOfficialOnly ==
  [][ (rpc = "loop" /\ rpc' = "probing" /\ fetched' # "ok") =>
        ip_sources[src] = "official" ]_vars

\* the calls C23 is about
InGen == call # None /\ call.fn = "_generate_ips_from_cidrs" /\ gen # None
InCidr == call # None /\ call.fn = "_generate_ips_from_cidr" /\ gen # None
\* a CIDR string that names no block with a usable host
NoUsableHost(c) == c.kind # "cidr" \/ UsableHosts(c) <= 0

\* C23: every call of the sampler, and of the draw from one block, ends.
\* The sampler runs at most 100 rounds and never starts a round, or a turn
\* for a block, with N addresses in the set; the draw from one block makes
\* at most 10 times the requested count of attempts, and what it returns is
\* what a turn of the sampler gets from it; a /31, a /32 and a malformed
\* string give nothing and the sampler goes on with the next block.
C23_SamplerTerminates ==
  /\ <>(gen # None /\ gen.pc = "done")
  /\ [](InGen => (gen.round_num <= MaxRounds + 1
                  /\ (gen.pc = "for" => gen.round_num <= MaxRounds)))
  /\ [][ InGen =>
           /\ (gen.pc = "while" /\ Cardinality(gen.ips) >= gen.target_count) =>
                (gen'.pc = "done" /\ gen'.round_num = gen.round_num)
           /\ (gen.pc = "for" /\ Cardinality(gen.ips) >= gen.target_count) =>
                (gen'.pc = "while" /\ gen'.ips = gen.ips)
           /\ (gen.pc = "while" /\ gen'.pc = "done") =>
                (Cardinality(gen.ips) >= gen.target_count \/ gen.round_num = MaxRounds + 1)
           /\ (gen.pc = "for" /\ gen'.pc = "for" /\ NoUsableHost(call.cidrs[gen.k])) =>
                (gen'.ips = gen.ips /\ gen'.k = gen.k + 1) ]_vars
  /\ [](InCidr =>
          /\ gen.pc = "loop" => gen.attempts < AttemptsPerCount * call.count
          /\ gen.pc = "done" =>
               /\ NoUsableHost(call.cidr) => ret = List(<< >>)
               /\ ~NoUsableHost(call.cidr) => gen.attempts <= AttemptsPerCount * call.count
               /\ {ret.value[k] : k \in 1..Len(ret.value)} \in cidr_results(call.cidr, call.count))

\* the sampler ran its 100 rounds on a /31 and a /30: the /31 gave nothing,
\* the /30 the same address in every round, and one address was returned
C23_Witness ==
  /\ InGen /\ gen.pc = "done"
  /\ call.cidrs = << Block31, Block30a >> /\ call.max_ips = 2
  /\ gen.round_num = MaxRounds + 1
  /\ Len(ret.value) = 1

\* the responses that make an attempt succeed: status 200 and a trace body
\* with ip and colo
Complete(resp) == resp.kind = "http" /\ resp.status = 200 /\ resp.ip # "" /\ resp.colo # ""

\* C24: the attempt that meets a complete response ends test_ip with a
\* result whose type is "proxy" if the address reported is the IPv6 one or
\* the address dialed, and "official" otherwise; every other attempt gives
\* no result; a result, once returned, is never replaced, so its type is
\* that of the first successful attempt.
C24_Classification ==
  /\ [][ \A i \in Tasks : \A resp \in Responses(ips[i].host) :
           AttemptDone(i, resp) =>
             IF Complete(resp)
             THEN /\ pc'[i] = "done" /\ task_result'[i].kind = "IPResult"
                  /\ task_result'[i].type \in {"proxy", "official"}
                  /\ task_result'[i].type = "proxy" <=>
                       (resp.ip = Ipv6Ip \/ resp.ip = ips[i].host)
             ELSE task_result'[i].kind # "IPResult" ]_vars
  /\ [][ \A i \in Tasks : (sched = "running" /\ pc[i] = "done") =>
           (pc'[i] = "done" /\ task_result'[i] = task_result[i]) ]_vars

\* one probe was classified "official" by its second attempt, after a
\* failed first one, and another "proxy"
C24_Witness ==
  /\ \E i \in Tasks : pc[i] = "done" /\ attempt[i] = 2 /\ task_result[i].kind = "IPResult"
                      /\ task_result[i].type = "official"
  /\ \E j \in Tasks : pc[j] = "done" /\ task_result[j].kind = "IPResult"
                      /\ task_result[j].type = "proxy"

\* C25: in mode B the results of the target country in results, and in the
\* list returned, never exceed T + C - 1: the signal is set exactly when
\* country_results holds T results, and from then on the matches recorded
\* and the probes in flight together stay within T + C - 1.
C25_MatchesAtMostTPlusC ==
  mode = "B" =>
    /\ Matches(results) = Len(country_results)
    /\ stop_event <=> Len(country_results) >= target_count
    /\ stop_event =>
         Len(country_results) + Cardinality(InFlight) <= target_count + max_concurrent - 1
    /\ Matches(results) <= target_count + max_concurrent - 1
    /\ sched = "returned" => Matches(returned) <= target_count + max_concurrent - 1

\* with T = 1 and C = 2 the list returned holds two results of the target
\* country: the second probe was in flight when the first set the signal
C25_Witness ==
  /\ mode = "B" /\ sched = "returned" /\ stop_event
  /\ target_count = 1 /\ max_concurrent = 2
  /\ Matches(returned) = 2

\* C26: while a source is probed, the signal of its batch is set exactly
\* when the batch itself has recorded targetCount results of the target
\* country, whatever is accumulated and whether or not a result repeats an
\* accumulated one; while the batch is below targetCount a task leaves the
\* wait for a slot only by calling test_ip.
C26_ThresholdPerBatch ==
  /\ [](rpc = "probing" =>
          /\ Len(country_results) = Matches(results)
          /\ stop_event <=> Len(country_results) >= target_count)
  /\ [][ (rpc = "probing" /\ Len(country_results) < target_count) =>
           \A i \in Tasks :
             (pc[i] \in {"new", "waiting"} /\ pc'[i] \notin {"new", "waiting"}) =>
               (i \in probed' /\ i \notin probed) ]_vars

\* T = 2, C = 1, one result accumulated: the batch of a later source has
\* recorded the same ip:port again, which makes two with the accumulated
\* one, and its next probe was admitted all the same
C26_Witness ==
  /\ rpc = "probing" /\ target_count = 2 /\ max_concurrent = 1
  /\ Len(all_results) = 1 /\ Len(country_results) = 1
  /\ IpPort(country_results[1]) = IpPort(all_results[1])
  /\ ~stop_event
  /\ \E i \in InFlight : i \in probed

\* C27: the signal, the result list and the match counter belong to one
\* batch: a batch starts with the signal unset, no results and no matches,
\* whatever the batch before left; within a batch the signal, once set,
\* stays set; between two batches nothing of a batch is left; and in a
\* batch that follows one whose signal was set, as in any other, a task that
\* gets a slot while the signal of its own batch is unset calls test_ip.
C27_BatchLocalSignal ==
  /\ [][ (rpc = "loop" /\ rpc' = "probing") =>
           /\ ~stop_event' /\ results' = << >> /\ country_results' = << >>
           /\ completed_tests' = 0 /\ probed' = {}
           /\ semaphore' = max_concurrent ]_vars
  /\ [][ (rpc = "probing" /\ rpc' = "probing" /\ stop_event) => stop_event' ]_vars
  /\ [](rpc # "probing" => (~stop_event /\ results = << >> /\ country_results = << >>))
  /\ [][ (rpc = "probing" /\ ~stop_event) =>
           \A i \in Tasks :
             (pc[i] \in {"new", "waiting"} /\ pc'[i] \notin {"new", "waiting"}) =>
               (i \in probed' /\ i \notin probed) ]_vars
  /\ [](rpc = "probing" => Len(results) = Cardinality(WithResult))

\* the signal was set in the batch of an earlier source, whose matches were
\* all accumulated already; the batch of the next source runs with the
\* signal unset, a probe in flight and no match of its own
C27_Witness ==
  /\ rpc = "probing" /\ stopped_before
  /\ ~stop_event /\ country_results = << >>
  /\ InFlight # {}

====
